---- MODULE Spec2Model ----
(***************************************************************************)
(* edls: list the entries of a directory with filtering, sorting and a    *)
(* type-aware display.  The model follows main() statement by statement:  *)
(* os.ReadDir, the filter/getFile loop, the sort stage, the clamping of   *)
(* the -n flag and printList.  Strings are sequences of one-character     *)
(* strings so that prefix, suffix, case folding and byte order are        *)
(* computed as the Go library computes them.                              *)
(***************************************************************************)
EXTENDS Integers, Sequences, FiniteSets, TLC

VARIABLES
    disk,               \* the directory on disk: set of [name, isDir, mode]
    goos,               \* runtime.GOOS
    argN,               \* the value of -n on the command line (os.Args)
    flagPattern,        \* -p
    flagAll,            \* -a
    flagNumberRecords,  \* -n (rewritten by the clamp of main)
    hasOrderByTime,     \* -t
    hasOrderBySize,     \* -s
    hasOrderReverse,    \* -r
    files,              \* result of os.ReadDir
    idx,                \* position of the range loop over files (1-based)
    fs,                 \* the working list of file objects
    shown,              \* number of iterations done by the loop of printList
    stdout,             \* lines written to standard output
    pc                  \* position of main

vars == <<disk, goos, argN, flagPattern, flagAll, flagNumberRecords, hasOrderByTime,
          hasOrderBySize, hasOrderReverse, files, idx, fs, shown, stdout, pc>>

flags == <<flagPattern, flagAll, flagNumberRecords, hasOrderByTime,
           hasOrderBySize, hasOrderReverse>>

-----------------------------------------------------------------------------
(* Bounds of the model *)

\* largest number of entries in the listed directory
MaxFiles == 3

\* largest value of the -n flag that is tried (the smallest is -1)
MaxLimit == 3

\* modification instants are 0..MaxTick, in ticks of 1/TicksPerSecond second
MaxTick == 2

TicksPerSecond == 2

-----------------------------------------------------------------------------
(* Strings *)

\* printable ASCII, position i holds the character of code i + 31
Ascii ==
    <<" ", "!", "QUOTE", "#", "$", "%", "&", "'", "(", ")", "*", "+", ",", "-",
      ".", "/", "0", "1", "2", "3", "4", "5", "6", "7", "8", "9", ":", ";",
      "<", "=", ">", "?", "@", "A", "B", "C", "D", "E", "F", "G", "H", "I",
      "J", "K", "L", "M", "N", "O", "P", "Q", "R", "S", "T", "U", "V", "W",
      "X", "Y", "Z", "[", "BACKSLASH", "]", "^", "_", "BACKTICK", "a", "b", "c", "d", "e",
      "f", "g", "h", "i", "j", "k", "l", "m", "n", "o", "p", "q", "r", "s",
      "t", "u", "v", "w", "x", "y", "z", "{", "|", "}", "~">>

Chars == {Ascii[i] : i \in 1..Len(Ascii)}

\* the byte value of a character
Ord == [c \in Chars |-> 31 + (CHOOSE i \in 1..Len(Ascii) : Ascii[i] = c)]

Chr(n) == Ascii[n - 31]

LowerChar == [c \in Chars |-> IF Ord[c] >= 65 /\ Ord[c] <= 90 THEN Chr(Ord[c] + 32) ELSE c]

UpperChar == [c \in Chars |-> IF Ord[c] >= 97 /\ Ord[c] <= 122 THEN Chr(Ord[c] - 32) ELSE c]

\* strings.ToLower
ToLower(s) == [i \in 1..Len(s) |-> LowerChar[s[i]]]

\* strings.ToUpper
ToUpper(s) == [i \in 1..Len(s) |-> UpperChar[s[i]]]

\* strings.HasPrefix
HasPrefix(s, prefix) ==
    Len(s) >= Len(prefix) /\ SubSeq(s, 1, Len(prefix)) = prefix

\* strings.HasSuffix
HasSuffix(s, suffix) ==
    Len(s) >= Len(suffix) /\ SubSeq(s, Len(s) - Len(suffix) + 1, Len(s)) = suffix

\* strings.Contains
Contains(s, substr) ==
    \E i \in 1..(Len(s) - Len(substr) + 1) : SubSeq(s, i, i + Len(substr) - 1) = substr

\* the < of Go on strings: byte-wise lexicographic order
StrLess(a, b) ==
    \E k \in 1..Len(b) :
        /\ k <= Len(a) + 1
        /\ \A i \in 1..(k - 1) : a[i] = b[i]
        /\ (k = Len(a) + 1 \/ Ord[a[k]] < Ord[b[k]])

-----------------------------------------------------------------------------
(* Constants of the program *)

exe == <<".", "e", "x", "e">>
deb == <<".", "d", "e", "b">>
zip == <<".", "z", "i", "p">>
gz  == <<".", "g", "z">>
tar == <<".", "t", "a", "r">>
rar == <<".", "r", "a", "r">>
png == <<".", "p", "n", "g">>
jpg == <<".", "j", "p", "g">>
gif == <<".", "g", "i", "f">>

\* the kinds of file, named as the code of main uses them
fileRegular    == "fileRegular"
fileDirectory  == "fileDirectory"
fileExecutable == "fileExecutable"
fileCompress   == "fileCompress"
fileImage      == "fileImage"
fileLink       == "fileLink"

FileTypes == {fileRegular, fileDirectory, fileExecutable, fileCompress, fileImage, fileLink}

Windows == "windows"

\* flag.Arg(0) when no directory is given
path == <<".">>

-----------------------------------------------------------------------------
(* Entry classifier *)

isLink(f) == HasPrefix(ToUpper(f.mode), <<"L">>)

isExec(f, os) ==
    IF os = Windows
    THEN HasSuffix(f.name, exe)
    ELSE Contains(f.mode, <<"x">>)

isCompress(f) == \E s \in {deb, zip, gz, tar, rar} : HasSuffix(f.name, s)

isImage(f) == \E s \in {png, jpg, gif} : HasSuffix(f.name, s)

\* a slip: the prefix is looked for in the path instead of the name
isHidden_OfPath(filename, basePath) == HasPrefix(basePath, <<".">>)

isHidden(filename, basePath) == HasPrefix(filename, <<".">>)

\* a slip: the suffix cases come before the directory case
setFile_SuffixFirst(f, os) ==
    [f EXCEPT !.fileType =
        IF isLink(f) THEN fileLink
        ELSE IF isCompress(f) THEN fileCompress
        ELSE IF isImage(f) THEN fileImage
        ELSE IF f.isDir THEN fileDirectory
        ELSE IF isExec(f, os) THEN fileExecutable
        ELSE fileRegular]

\* the file after setFile(&f)
setFile(f, os) ==
    [f EXCEPT !.fileType =
        CASE isLink(f)     -> fileLink
          [] OTHER -> CASE f.isDir -> fileDirectory
          [] OTHER -> CASE isExec(f, os) -> fileExecutable
          [] OTHER -> CASE isCompress(f) -> fileCompress
          [] OTHER -> CASE isImage(f) -> fileImage
          [] OTHER -> fileRegular]

\* the file built by getFile from a directory entry and its FileInfo
getFile(f, hidden, info, os) ==
    setFile([name             |-> f.name,
             isDir            |-> f.isDir,
             isHidden         |-> hidden,
             userName         |-> "user",
             groupName        |-> "group",
             size             |-> info.size,
             modificationTime |-> info.modTime,
             mode             |-> info.mode,
             fileType         |-> fileRegular], os)

-----------------------------------------------------------------------------
(* regexp.MatchString, for expressions made of an optional leading (?i),  *)
(* literal characters, the wildcard "." and "[" (which opens a character  *)
(* class and is an error when no "]" closes it)                           *)

FoldPrefix == <<"(", "?", "i", ")">>

RegexBody(expr) ==
    IF HasPrefix(expr, FoldPrefix) THEN SubSeq(expr, Len(FoldPrefix) + 1, Len(expr)) ELSE expr

\* the error of regexp.Compile: a "[" with no closing "]"
CompileError(expr) ==
    \E i \in 1..Len(expr) :
        /\ expr[i] = "["
        /\ \A j \in (i + 1)..Len(expr) : expr[j] # "]"

AtomMatches(atom, c, fold) ==
    \/ atom = "."
    \/ atom = c
    \/ fold /\ LowerChar[atom] = LowerChar[c]

\* [matched, err] as returned by regexp.MatchString(expr, s): an unanchored search
MatchString(expr, s) ==
    IF CompileError(expr)
    THEN [matched |-> FALSE, err |-> TRUE]
    ELSE LET body == RegexBody(expr)
             fold == HasPrefix(expr, FoldPrefix)
         IN  [matched |-> \E i \in 1..(Len(s) - Len(body) + 1) :
                              \A k \in 1..Len(body) : AtomMatches(body[k], s[i + k - 1], fold),
              err     |-> FALSE]

-----------------------------------------------------------------------------
(* Sort stage *)

\* modificationTime.Unix(): whole seconds
Unix(t) == t \div TicksPerSecond

\* a slip: the reverse flag is not looked at
mySortString_Forward(i, j, isReverse) == StrLess(i, j)

\* mySort[T] instantiated at string
mySortString(i, j, isReverse) ==
    IF isReverse THEN StrLess(j, i) ELSE StrLess(i, j)

\* a slip: <= and >= in place of < and >
mySortInt_NonStrict(i, j, isReverse) ==
    IF isReverse THEN i >= j ELSE i <= j

\* mySort[T] instantiated at int64
mySortInt(i, j, isReverse) ==
    IF isReverse THEN i > j ELSE i < j

\* a slip: the names are compared as they are, without strings.ToLower
lessByName_CaseSensitive(a, b, isReverse) == mySortString(a.name, b.name, isReverse)

lessByName(a, b, isReverse) == mySortString(ToLower(a.name), ToLower(b.name), isReverse)

lessBySize(a, b, isReverse) == mySortInt(a.size, b.size, isReverse)

lessByTime(a, b, isReverse) ==
    mySortInt(Unix(a.modificationTime), Unix(b.modificationTime), isReverse)

less(key, a, b, isReverse) ==
    CASE key = "name" -> lessByName(a, b, isReverse)
      [] key = "size" -> lessBySize(a, b, isReverse)
      [] key = "time" -> lessByTime(a, b, isReverse)

Swap(s, i, j) == [s EXCEPT ![i] = s[j], ![j] = s[i]]

\* inner loop of the insertion sort: for j := i; j > a && less(j, j-1); j-- { swap }
RECURSIVE SinkLeft(_, _, _, _)
SinkLeft(s, j, key, isReverse) ==
    IF j > 1 /\ less(key, s[j], s[j - 1], isReverse)
    THEN SinkLeft(Swap(s, j, j - 1), j - 1, key, isReverse)
    ELSE s

\* outer loop of the insertion sort: for i := a + 1; i < b; i++
RECURSIVE InsertionSort(_, _, _, _)
InsertionSort(s, i, key, isReverse) ==
    IF i > Len(s) THEN s
    ELSE InsertionSort(SinkLeft(s, i, key, isReverse), i + 1, key, isReverse)

\* sort.SliceStable: slices shorter than its block size of 20 are insertion-sorted
SliceStable(s, key, isReverse) == InsertionSort(s, 2, key, isReverse)

orderByName(s, isReverse) == SliceStable(s, "name", isReverse)

orderBySize(s, isReverse) == SliceStable(s, "size", isReverse)

orderByTime(s, isReverse) == SliceStable(s, "time", isReverse)

\* the three if statements of main that pick the sort
SortSelected(s, byTime, bySize, isReverse) ==
    LET s1 == IF ~byTime /\ ~bySize THEN orderByName(s, isReverse) ELSE s
        s2 == IF bySize /\ ~byTime THEN orderBySize(s1, isReverse) ELSE s1
        s3 == IF byTime /\ ~bySize THEN orderByTime(s2, isReverse) ELSE s2
    IN  s3

\* a slip: zero is not taken as "no limit"
ClampRecords_ZeroIsZero(n, len) == IF n > len THEN len ELSE n

\* the clamp of -n before printList
ClampRecords(n, len) == IF n = 0 \/ n > len THEN len ELSE n

-----------------------------------------------------------------------------
(* The directory source *)

Str_secret == <<".", "s", "e", "c", "r", "e", "t">>
Str_dotenv == <<".", "e", "n", "v">>
Str_env    == <<"e", "n", "v">>
Str_a_txt  == <<"a", ".", "t", "x", "t">>
Str_A_TXT  == <<"A", ".", "T", "X", "T">>
Str_B_TAR  == <<"B", ".", "T", "A", "R">>
Str_img    == <<"i", "m", "g", "_", "0", "0", "1", ".", "p", "n", "g">>
Str_x_tar  == <<"x", ".", "t", "a", "r">>
Str_run_exe == <<"r", "u", "n", ".", "e", "x", "e">>
Str_p_gif  == <<"p", ".", "g", "i", "f">>

\* FileMode.String() of a regular file, an executable file, a directory,
\* a directory nobody may enter, and a symbolic link (also as ls writes it)
ModeRegular == <<"-", "r", "w", "-", "r", "-", "-", "r", "-", "-">>
ModeExec    == <<"-", "r", "w", "x", "r", "-", "x", "r", "-", "x">>
ModeDir     == <<"d", "r", "w", "x", "r", "-", "x", "r", "-", "x">>
ModeDirNoX  == <<"d", "r", "w", "-", "r", "-", "-", "r", "-", "-">>
ModeLink    == <<"L", "r", "w", "x", "r", "w", "x", "r", "w", "x">>
ModeLinkLow == <<"l", "r", "w", "-", "r", "w", "-", "r", "w", "-">>

Inode(name, isDir, mode, size, modTime) ==
    [name |-> name, isDir |-> isDir, mode |-> mode, size |-> size, modTime |-> modTime]

\* the files a listed directory is made of
Pool ==
    { Inode(Str_secret, FALSE, ModeRegular,  5, 1),
      Inode(Str_dotenv, FALSE, ModeRegular,  5, 0),
      Inode(Str_env,    TRUE,  ModeDir,     10, 2),
      Inode(Str_a_txt,  FALSE, ModeRegular, 10, 0),
      Inode(Str_B_TAR,  FALSE, ModeRegular,  5, 2),
      Inode(Str_img,    FALSE, ModeExec,    10, 1) }

\* the values of the -p flag that are tried: none, IMG, .t and the unbalanced [
Patterns == { <<>>, <<"I", "M", "G">>, <<".", "t">>, <<"[">> }

GoosValues == {"linux", Windows}

\* os.ReadDir returns the entries of the directory sorted by filename
RECURSIVE ReadDir(_)
ReadDir(d) ==
    IF d = {} THEN <<>>
    ELSE LET first == CHOOSE x \in d : \A y \in d \ {x} : StrLess(x.name, y.name)
         IN  <<first>> \o ReadDir(d \ {first})

\* what f.Info() returns for a directory entry when it succeeds
Info(f) == [size |-> f.size, modTime |-> f.modTime, mode |-> f.mode]

\* the line printList writes for a file
Line(f) ==
    [kind |-> "entry", mode |-> f.mode, userName |-> f.userName, groupName |-> f.groupName,
     size |-> f.size, modificationTime |-> f.modificationTime, style |-> f.fileType,
     name |-> f.name]

\* the line fmt.Println(err) writes
ErrLine(what) == [kind |-> "error", what |-> what]

-----------------------------------------------------------------------------
(* main *)

Init ==
    /\ disk \in {d \in SUBSET Pool : Cardinality(d) <= MaxFiles}
    /\ goos \in GoosValues
    /\ argN \in -1..MaxLimit
    /\ flagPattern \in Patterns
    /\ flagAll \in BOOLEAN
    /\ flagNumberRecords = argN
    /\ hasOrderByTime \in BOOLEAN
    /\ hasOrderBySize \in BOOLEAN
    /\ hasOrderReverse \in BOOLEAN
    /\ files = <<>>
    /\ idx = 1
    /\ fs = <<>>
    /\ shown = 0
    /\ stdout = <<>>
    /\ pc = "ReadDir"

\* files, err := os.ReadDir(path) with err == nil
ReadDirOk ==
    /\ pc = "ReadDir"
    /\ files' = ReadDir(disk)
    /\ pc' = "loop"
    /\ UNCHANGED <<disk, goos, argN, flags, idx, fs, shown, stdout>>

\* os.ReadDir fails: the error is printed and main returns
ReadDirFail ==
    /\ pc = "ReadDir"
    /\ stdout' = Append(stdout, ErrLine("ReadDir"))
    /\ pc' = "return"
    /\ UNCHANGED <<disk, goos, argN, flags, files, idx, fs, shown>>

\* the entry is hidden and -a is not set: continue
LoopSkipHidden ==
    /\ pc = "loop"
    /\ idx <= Len(files)
    /\ isHidden(files[idx].name, path) /\ ~flagAll
    /\ idx' = idx + 1
    /\ UNCHANGED <<disk, goos, argN, flags, files, fs, shown, stdout, pc>>

\* the entry reaches the pattern check
PassesHidden == ~(isHidden(files[idx].name, path) /\ ~flagAll)

\* regexp.MatchString("(?i)"+*flagPattern, f.Name())
PatternResult == MatchString(FoldPrefix \o flagPattern, files[idx].name)

\* regexp.MatchString returns an error: panic(err)
LoopPanic ==
    /\ pc = "loop"
    /\ idx <= Len(files)
    /\ PassesHidden
    /\ flagPattern # <<>>
    /\ PatternResult.err
    /\ pc' = "panic"
    /\ UNCHANGED <<disk, goos, argN, flags, files, idx, fs, shown, stdout>>

\* the name does not match the pattern: continue
LoopNoMatch ==
    /\ pc = "loop"
    /\ idx <= Len(files)
    /\ PassesHidden
    /\ flagPattern # <<>>
    /\ ~PatternResult.err
    /\ ~PatternResult.matched
    /\ idx' = idx + 1
    /\ UNCHANGED <<disk, goos, argN, flags, files, fs, shown, stdout, pc>>

\* the entry passed both filters
Passes ==
    /\ PassesHidden
    /\ flagPattern # <<>> => (~PatternResult.err /\ PatternResult.matched)

\* a slip: the error is printed and the loop goes on to the next entry
LoopInfoFail_Continue ==
    /\ pc = "loop"
    /\ idx <= Len(files)
    /\ Passes
    /\ stdout' = Append(stdout, ErrLine("f.Info()"))
    /\ idx' = idx + 1
    /\ UNCHANGED <<disk, goos, argN, flags, files, fs, shown, pc>>

\* getFile fails on f.Info(): the error is printed and main returns
LoopInfoFail ==
    /\ pc = "loop"
    /\ idx <= Len(files)
    /\ Passes
    /\ stdout' = Append(stdout, ErrLine("f.Info()"))
    /\ pc' = "return"
    /\ UNCHANGED <<disk, goos, argN, flags, files, idx, fs, shown>>

\* getFile succeeds: fs = append(fs, archivo)
LoopAppend ==
    /\ pc = "loop"
    /\ idx <= Len(files)
    /\ Passes
    /\ fs' = Append(fs, getFile(files[idx], isHidden(files[idx].name, path),
                                Info(files[idx]), goos))
    /\ idx' = idx + 1
    /\ UNCHANGED <<disk, goos, argN, flags, files, shown, stdout, pc>>

\* the range loop is over
LoopEnd ==
    /\ pc = "loop"
    /\ idx > Len(files)
    /\ pc' = "sort"
    /\ UNCHANGED <<disk, goos, argN, flags, files, idx, fs, shown, stdout>>

\* the three if statements that sort fs in place
SortStage ==
    /\ pc = "sort"
    /\ fs' = SortSelected(fs, hasOrderByTime, hasOrderBySize, hasOrderReverse)
    /\ pc' = "clamp"
    /\ UNCHANGED <<disk, goos, argN, flags, files, idx, shown, stdout>>

\* if *flagNumberRecords == 0 || *flagNumberRecords > len(fs) { ... = len(fs) }
ClampStage ==
    /\ pc = "clamp"
    /\ flagNumberRecords' = ClampRecords(flagNumberRecords, Len(fs))
    /\ pc' = "printList"
    /\ UNCHANGED <<disk, goos, argN, flagPattern, flagAll, hasOrderByTime, hasOrderBySize,
                   hasOrderReverse, files, idx, fs, shown, stdout>>

\* fs[:numRegisters] is within the bounds of fs
SliceInRange(numRegisters, s) == 0 <= numRegisters /\ numRegisters <= Len(s)

\* printList evaluates fs[:numRegisters]
PrintSlice ==
    /\ pc = "printList"
    /\ SliceInRange(flagNumberRecords, fs)
    /\ pc' = "printLoop"
    /\ UNCHANGED <<disk, goos, argN, flags, files, idx, fs, shown, stdout>>

\* fs[:numRegisters] is out of range: run-time panic
PrintSlicePanic ==
    /\ pc = "printList"
    /\ ~SliceInRange(flagNumberRecords, fs)
    /\ pc' = "panic"
    /\ UNCHANGED <<disk, goos, argN, flags, files, idx, fs, shown, stdout>>

\* one iteration of the loop of printList
PrintLine ==
    /\ pc = "printLoop"
    /\ shown < flagNumberRecords
    /\ stdout' = Append(stdout, Line(fs[shown + 1]))
    /\ shown' = shown + 1
    /\ UNCHANGED <<disk, goos, argN, flags, files, idx, fs, pc>>

\* printList and main return
PrintEnd ==
    /\ pc = "printLoop"
    /\ shown = flagNumberRecords
    /\ pc' = "done"
    /\ UNCHANGED <<disk, goos, argN, flags, files, idx, fs, shown, stdout>>

Next ==
    \/ ReadDirOk
    \/ ReadDirFail
    \/ LoopSkipHidden
    \/ LoopPanic
    \/ LoopNoMatch
    \/ LoopInfoFail
    \/ LoopAppend
    \/ LoopEnd
    \/ SortStage
    \/ ClampStage
    \/ PrintSlice
    \/ PrintSlicePanic
    \/ PrintLine
    \/ PrintEnd

Spec == Init /\ [][Next]_vars

-----------------------------------------------------------------------------
(* The sort stage alone: main at line 67, after a loop that kept every    *)
(* entry (-a set, no pattern), for every choice of sizes and instants     *)

SortNames == {Str_secret, Str_A_TXT, Str_B_TAR, Str_a_txt}

Sizes == {5, 10}

\* every entry of a directory passed through getFile
Working(entries, os) ==
    [i \in 1..Len(entries) |->
        getFile(entries[i], isHidden(entries[i].name, path), Info(entries[i]), os)]

SortInit ==
    /\ \E names \in {n \in SUBSET SortNames : Cardinality(n) <= MaxFiles} :
         \E meta \in [names -> Sizes \X (0..MaxTick)] :
            disk = {Inode(n, FALSE, ModeRegular, meta[n][1], meta[n][2]) : n \in names}
    /\ goos = "linux"
    /\ argN = 0
    /\ flagPattern = <<>>
    /\ flagAll = TRUE
    /\ flagNumberRecords = argN
    /\ hasOrderByTime \in BOOLEAN
    /\ hasOrderBySize \in BOOLEAN
    /\ hasOrderReverse \in BOOLEAN
    /\ files = ReadDir(disk)
    /\ idx = Len(files) + 1
    /\ fs = Working(files, goos)
    /\ shown = 0
    /\ stdout = <<>>
    /\ pc = "sort"

SortNext == SortStage

SortSpec == SortInit /\ [][SortNext]_vars

-----------------------------------------------------------------------------
(* The classifier alone: getFile at line 155, about to call setFile, for  *)
(* every combination of name, directory flag, mode string and platform    *)

ClassifyNames == {Str_a_txt, Str_x_tar, Str_B_TAR, Str_img, Str_run_exe, Str_p_gif}

Modes == {ModeRegular, ModeExec, ModeDir, ModeDirNoX, ModeLink, ModeLinkLow}

ClassifyInit ==
    /\ \E name \in ClassifyNames, isDir \in BOOLEAN, mode \in Modes :
         /\ disk = {Inode(name, isDir, mode, 5, 0)}
         /\ fs = <<[name |-> name, isDir |-> isDir, isHidden |-> isHidden(name, path),
                    userName |-> "user", groupName |-> "group", size |-> 5,
                    modificationTime |-> 0, mode |-> mode, fileType |-> fileRegular]>>
    /\ goos \in GoosValues
    /\ argN = 0
    /\ flagPattern = <<>>
    /\ flagAll = TRUE
    /\ flagNumberRecords = argN
    /\ hasOrderByTime = FALSE
    /\ hasOrderBySize = FALSE
    /\ hasOrderReverse = FALSE
    /\ files = ReadDir(disk)
    /\ idx = 1
    /\ shown = 0
    /\ stdout = <<>>
    /\ pc = "setFile"

\* setFile(&result)
SetFileCall ==
    /\ pc = "setFile"
    /\ fs' = <<setFile(fs[1], goos)>>
    /\ pc' = "getFileReturn"
    /\ UNCHANGED <<disk, goos, argN, flags, files, idx, shown, stdout>>

ClassifyNext == SetFileCall

ClassifySpec == ClassifyInit /\ [][ClassifyNext]_vars

-----------------------------------------------------------------------------
(* Properties *)

NamesOf(s) == [i \in 1..Len(s) |-> s[i].name]

EntryLines(out) == SelectSeq(out, LAMBDA l : l.kind = "entry")

ErrorLines(out) == SelectSeq(out, LAMBDA l : l.kind = "error")

Reverse(s) == [i \in 1..Len(s) |-> s[Len(s) + 1 - i]]

\* the position of element x in a list that holds it once
PosIn(s, x) == CHOOSE i \in 1..Len(s) : s[i] = x

\* the sort key of a file under each of the three orders
KeyOf(key, f) ==
    CASE key = "name" -> ToLower(f.name)
      [] key = "size" -> <<f.size>>
      [] key = "time" -> <<Unix(f.modificationTime)>>

\* the keys for which main calls a sort: none when -t and -s are both given
ActiveKeys ==
    IF ~hasOrderByTime /\ ~hasOrderBySize THEN {"name"}
    ELSE IF hasOrderBySize /\ ~hasOrderByTime THEN {"size"}
    ELSE IF hasOrderByTime /\ ~hasOrderBySize THEN {"time"}
    ELSE {}

\* C1: with -t and -s both requested, the sort stage leaves the list in the
\* order that sort-by-time alone produces (time takes precedence over size).
C1_TimeTakesPrecedence ==
    [][(pc = "sort" /\ hasOrderByTime /\ hasOrderBySize)
          => fs' = orderByTime(fs, hasOrderReverse)]_vars

\* the number of entries C2 expects for a limit n and k entries
Expected(n, k) == IF n = 0 \/ n > k THEN k ELSE n

\* C2: the limit clamps but never pads: with k entries in the sorted list and
\* a limit n >= 0 on the command line, a finished run has rendered k lines if
\* n = 0 or n > k and n lines otherwise, and they are the lines of the first
\* entries of the sorted list, in the order of the list; that number is the
\* count printList is called with.
C2_LimitClamps ==
    /\ (pc = "printList" /\ argN >= 0) => flagNumberRecords = Expected(argN, Len(fs))
    /\ (pc = "done" /\ argN >= 0) =>
          EntryLines(stdout) = [i \in 1..Expected(argN, Len(fs)) |-> Line(fs[i])]

C2_Witness ==
    /\ pc = "done"
    /\ argN = 2
    /\ Len(fs) = 3
    /\ Len(stdout) = 2
    /\ hasOrderBySize /\ ~hasOrderByTime
    /\ NamesOf(fs) # NamesOf(files)

\* what C3 expects: the first kind, in the fixed order, whose predicate holds
FirstMatch(f, os) ==
    IF isLink(f) THEN fileLink
    ELSE IF f.isDir THEN fileDirectory
    ELSE IF isExec(f, os) THEN fileExecutable
    ELSE IF isCompress(f) THEN fileCompress
    ELSE IF isImage(f) THEN fileImage
    ELSE fileRegular

\* C3: setFile gives every file exactly one kind, the first of SymbolicLink,
\* Directory, Executable, Compressed, Image, Regular whose predicate holds; a
\* directory whose name ends in a compressed suffix is Directory, and a mode
\* that starts with the link indicator gives SymbolicLink whatever else holds;
\* no other field of the file changes.
C3_FirstMatchWins ==
    pc = "getFileReturn" =>
        LET f == fs[1] IN
        /\ f.fileType \in FileTypes
        /\ f.fileType = FirstMatch(f, goos)
        /\ (f.isDir /\ isCompress(f) /\ ~isLink(f)) => f.fileType = fileDirectory
        /\ f.isDir => f.fileType \in {fileDirectory, fileLink}
        /\ f.mode[1] \in {"L", "l"} => f.fileType = fileLink
        /\ f.fileType = fileCompress => (~f.isDir /\ ~isLink(f) /\ ~isExec(f, goos))
        /\ \E d \in disk : f.name = d.name /\ f.isDir = d.isDir /\ f.mode = d.mode

C3_Witness ==
    /\ pc = "getFileReturn"
    /\ fs[1].isDir
    /\ fs[1].name = Str_x_tar
    /\ fs[1].mode = ModeDirNoX
    /\ fs[1].fileType = fileDirectory

\* C4: with an invalid pattern configured the run never completes normally
\* and renders no line, whatever the directory holds and whatever -a is.
C4_InvalidPatternIsFatal ==
    CompileError(FoldPrefix \o flagPattern) =>
        (pc # "done" /\ EntryLines(stdout) = <<>>)

\* C5: a run in which os.ReadDir or f.Info() failed has stopped with the
\* error message as its only output, however many entries were appended
\* before; and no entry line is written before the loop over the directory
\* has processed every entry.
C5_NoPartialListing ==
    /\ ErrorLines(stdout) # <<>> =>
          (pc = "return" /\ EntryLines(stdout) = <<>> /\ Len(stdout) = 1)
    /\ pc = "return" => ErrorLines(stdout) # <<>>
    /\ EntryLines(stdout) # <<>> =>
          (idx > Len(files) /\ pc \in {"printLoop", "done"})

C5_Witness ==
    /\ pc = "return"
    /\ Len(fs) = 2
    /\ idx = 3
    /\ stdout = <<ErrLine("f.Info()")>>

\* case-insensitive search as C6 words it: the name, lower-cased, holds a
\* match of the lower-cased pattern somewhere
SearchIgnoringCase(pattern, name) ==
    MatchString(ToLower(pattern), ToLower(name)).matched

\* the two rules of C6
ShouldInclude(f) ==
    /\ (f.name[1] # "." \/ flagAll)
    /\ (flagPattern = <<>> \/ SearchIgnoringCase(flagPattern, f.name))

\* C6: while the loop runs and when it is over, the working list holds, in
\* directory order, exactly the entries seen so far that pass both rules:
\* (the name does not begin with "." or -a is set) and (the pattern is empty
\* or the name matches it, ignoring case, as a search).
C6_IncludedIffBothRules ==
    pc \in {"loop", "sort"} =>
        NamesOf(fs) = NamesOf(SelectSeq(SubSeq(files, 1, idx - 1), ShouldInclude))

C6_Witness ==
    /\ pc = "sort"
    /\ ~flagAll
    /\ flagPattern = <<"I", "M", "G">>
    /\ NamesOf(files) = <<Str_dotenv, Str_env, Str_img>>
    /\ NamesOf(fs) = <<Str_img>>

\* C7: a sort is stable and only permutes: the list after the sort stage
\* holds the same files with every field unchanged, and two files with equal
\* keys (sizes, lower-cased names, whole-second instants) keep their order,
\* with reverse set or not.
C7_SortIsStable ==
    [][pc = "sort" =>
        /\ Len(fs') = Len(fs)
        /\ {fs'[i] : i \in 1..Len(fs')} = {fs[i] : i \in 1..Len(fs)}
        /\ \A key \in ActiveKeys : \A i, j \in 1..Len(fs) :
              (i < j /\ KeyOf(key, fs[i]) = KeyOf(key, fs[j]))
                  => PosIn(fs', fs[i]) < PosIn(fs', fs[j])
        /\ \A key \in ActiveKeys : \A i \in 1..(Len(fs) - 1) :
              ~less(key, fs'[i + 1], fs'[i], hasOrderReverse)]_vars

C7_Witness ==
    /\ pc = "clamp"
    /\ hasOrderBySize /\ ~hasOrderByTime /\ hasOrderReverse
    /\ Len(fs) = 3
    /\ fs[1].size = fs[2].size
    /\ fs[3].size < fs[1].size
    /\ NamesOf(fs) = <<Str_B_TAR, Str_a_txt, Str_A_TXT>>

\* the keys of a list are pairwise distinct
DistinctKeys(key, s) ==
    \A i, j \in 1..Len(s) : i # j => KeyOf(key, s[i]) # KeyOf(key, s[j])

\* C8: reverse is a pure inversion: when the keys of the list are pairwise
\* distinct, the sort with reverse set leaves the reversal of what the sort
\* without reverse produces.
C8_ReverseInverts ==
    [][(pc = "sort" /\ hasOrderReverse) =>
        \A key \in ActiveKeys :
            DistinctKeys(key, fs) => fs' = Reverse(SliceStable(fs, key, FALSE))]_vars

C8_Witness ==
    /\ pc = "clamp"
    /\ hasOrderReverse /\ ~hasOrderByTime /\ ~hasOrderBySize
    /\ NamesOf(files) = <<Str_secret, Str_B_TAR, Str_a_txt>>
    /\ NamesOf(fs) = <<Str_B_TAR, Str_a_txt, Str_secret>>

\* the directory of the end-to-end scenario
Scenario ==
    { Inode(Str_a_txt,  FALSE, ModeRegular, 10, 0),
      Inode(Str_B_TAR,  FALSE, ModeRegular,  5, 2),
      Inode(Str_secret, FALSE, ModeRegular,  5, 1) }

ScenarioRun ==
    /\ pc = "done"
    /\ disk = Scenario
    /\ argN = 0
    /\ flagPattern = <<>>
    /\ ~hasOrderByTime /\ ~hasOrderBySize /\ ~hasOrderReverse

\* C9 as stated: on the scenario directory a run with no flags lists B.TAR
\* and then a.txt, omitting .secret.
C9_AsStated ==
    (ScenarioRun /\ ~flagAll) =>
        NamesOf(EntryLines(stdout)) = <<Str_B_TAR, Str_a_txt>>

\* C9, amended: on the scenario directory a run with no flags lists a.txt
\* and then B.TAR, omitting .secret; with -a it lists .secret, a.txt, B.TAR.
C9_Scenario ==
    ScenarioRun =>
        NamesOf(EntryLines(stdout)) =
            IF flagAll THEN <<Str_secret, Str_a_txt, Str_B_TAR>>
                       ELSE <<Str_a_txt, Str_B_TAR>>

C9_Witness ==
    /\ ScenarioRun
    /\ ~flagAll
    /\ Len(stdout) = 2
    /\ NamesOf(files) = <<Str_secret, Str_B_TAR, Str_a_txt>>

\* C10: the count handed to printList lies in 0..len(fs), whatever the value
\* of -n, so fs[:numRegisters] never goes out of range.
C10_SliceWithinBounds ==
    pc = "printList" => SliceInRange(flagNumberRecords, fs)

====
